---- MODULE Spec2Model ----
(***************************************************************************)
(* Model of the string-cleaner library (src/string_cleaner).               *)
(*                                                                         *)
(* A string is a sequence of Unicode code points (naturals), so that the   *)
(* character ranges of the regular expressions in the source ([a-z],       *)
(* [A-z], [0-9], ord(c) < 128) are the integer ranges they are in Python.  *)
(* Every function of the library is pure; the state machine below models a *)
(* caller that picks a name and applies the library's operations to it,    *)
(* keeping the arguments and the results of the last two calls.            *)
(***************************************************************************)
EXTENDS Integers, Sequences, FiniteSets, TLC

VARIABLES
    name,     \* the string the caller starts from
    op1,      \* the first operation applied ("none" before any call)
    mid,      \* the text returned by the first operation
    op2,      \* the second operation applied ("none" before the second call)
    out,      \* the text returned by the latest operation
    cfg,      \* the keyword arguments of the latest call
    report,   \* the labels check_name returned, in order
    label     \* the label detect_naming_convention returned

vars == <<name, op1, mid, op2, out, cfg, report, label>>

-----------------------------------------------------------------------------
(* Bounds of the model *)

MaxConvLen == 4      \* longest name given to the one-shot converters
MaxDetectLen == 3    \* longest name given to detect_naming_convention
MaxCheckLen == 3     \* longest name given to check_name
MaxNormLen == 3      \* longest name given to normalize_notation (general alphabet)
MaxPunctLen == 2     \* longest punctuation-only name given to normalize_notation
MaxAcronymLen == 6   \* longest letters-only name given to normalize_notation
MaxWordsLen == 5     \* longest lowercase-words name given to normalize_notation
MaxFilterLen == 4    \* longest text given to the character filters

-----------------------------------------------------------------------------
(* Code points *)

LF == 10             \* "\n", the one character "." does not match
SPACE == 32
AMP == 38            \* "&"
LPAREN == 40
RPAREN == 41
HYPHEN == 45
DOT == 46
LT == 60
GT == 62
LBRACK == 91
RBRACK == 93
USCORE == 95
LBRACE == 123
RBRACE == 125
ENDASH == 8211       \* U+2013
EMDASH == 8212       \* U+2014
MINUSSIGN == 8722    \* U+2212

(* Character predicates: Python's on ASCII, on the accented pair U+00C9 /    *)
(* U+00E9 and on the three Unicode dashes, the characters inputs are drawn   *)
(* from.                                                                     *)

IsAsciiUpper(c) == c \in 65..90
IsAsciiLower(c) == c \in 97..122
IsAsciiDigit(c) == c \in 48..57

\* str.isupper / str.islower / str.isdigit / str.isalpha / str.isalnum / str.isspace on one character
IsUpper(c) == IsAsciiUpper(c) \/ c \in {201}
IsLower(c) == IsAsciiLower(c) \/ c \in {233}
IsCased(c) == IsUpper(c) \/ IsLower(c)
IsDigit(c) == IsAsciiDigit(c)
IsAlpha(c) == IsCased(c)
IsAlnum(c) == IsAlpha(c) \/ IsDigit(c)
IsSpace(c) == c \in {9, 10, 11, 12, 13, 28, 29, 30, 31, SPACE}

\* \w of a str pattern: alphanumeric or underscore
IsWordChar(c) == IsAlnum(c) \/ c = USCORE

\* the ASCII punctuation class [!"#$%&'()*+,\-./:;<=>?@\[\]^_`{|}~]
IsPunct(c) == c \in (33..47) \cup (58..64) \cup (91..96) \cup (123..126)

LowerChar(c) == IF IsAsciiUpper(c) THEN c + 32 ELSE IF c \in {201} THEN c + 32 ELSE c
UpperChar(c) == IF IsAsciiLower(c) THEN c - 32 ELSE IF c \in {233} THEN c - 32 ELSE c

-----------------------------------------------------------------------------
(* Generic string helpers (Python str methods) *)

\* all strings over alphabet A of length at most n
StringsOver(A, n) == UNION {[1..k -> A] : k \in 0..n}

\* s[i:] with a 1-based i
From(s, i) == SubSeq(s, i, Len(s))

\* str.lower / str.upper
Lower(s) == [i \in 1..Len(s) |-> LowerChar(s[i])]
Upper(s) == [i \in 1..Len(s) |-> UpperChar(s[i])]

\* str.title: a cased character is uppercased when the previous character is
\* not cased and lowercased when it is
Title(s) ==
    [i \in 1..Len(s) |->
        IF i > 1 /\ IsCased(s[i-1]) THEN LowerChar(s[i]) ELSE UpperChar(s[i])]

\* str.capitalize
Capitalize(s) ==
    [i \in 1..Len(s) |-> IF i = 1 THEN UpperChar(s[i]) ELSE LowerChar(s[i])]

\* str.isupper: at least one cased character and no lowercase one
StrIsUpper(s) ==
    /\ \E i \in 1..Len(s) : IsCased(s[i])
    /\ \A i \in 1..Len(s) : ~IsLower(s[i])

\* str.istitle: uppercase only after uncased, lowercase only after cased,
\* and at least one cased character
StrIsTitle(s) ==
    /\ \E i \in 1..Len(s) : IsCased(s[i])
    /\ \A i \in 1..Len(s) :
          LET prevCased == i > 1 /\ IsCased(s[i-1])
          IN  /\ IsUpper(s[i]) => ~prevCased
              /\ IsLower(s[i]) => prevCased

\* str.strip()
RECURSIVE LStrip(_)
LStrip(s) == IF s # <<>> /\ IsSpace(Head(s)) THEN LStrip(Tail(s)) ELSE s
RECURSIVE RStrip(_)
RStrip(s) ==
    IF s # <<>> /\ IsSpace(s[Len(s)]) THEN RStrip(SubSeq(s, 1, Len(s) - 1)) ELSE s
Strip(s) == RStrip(LStrip(s))

\* str.split(sep) for a one-character separator: always at least one field
RECURSIVE SplitOn(_, _)
SplitOn(s, sep) ==
    IF \A i \in 1..Len(s) : s[i] # sep
    THEN <<s>>
    ELSE LET k == CHOOSE i \in 1..Len(s) :
                     s[i] = sep /\ \A j \in 1..(i-1) : s[j] # sep
         IN  <<SubSeq(s, 1, k - 1)>> \o SplitOn(From(s, k + 1), sep)

\* str.split(): fields separated by runs of whitespace, no empty field
RECURSIVE SplitWs(_)
SplitWs(s) ==
    LET t == LStrip(s)
    IN  IF t = <<>> THEN <<>>
        ELSE IF \A i \in 1..Len(t) : ~IsSpace(t[i]) THEN <<t>>
        ELSE LET k == CHOOSE i \in 1..Len(t) :
                         IsSpace(t[i]) /\ \A j \in 1..(i-1) : ~IsSpace(t[j])
             IN  <<SubSeq(t, 1, k - 1)>> \o SplitWs(From(t, k + 1))

\* sep.join(words)
RECURSIVE Join(_, _)
Join(words, sep) ==
    IF words = <<>> THEN <<>>
    ELSE IF Len(words) = 1 THEN words[1]
    ELSE words[1] \o sep \o Join(Tail(words), sep)

\* ''.join(f(word) for word in words), with f = str.title
RECURSIVE JoinTitled(_)
JoinTitled(words) ==
    IF words = <<>> THEN <<>> ELSE Title(Head(words)) \o JoinTitled(Tail(words))

\* str.replace(c, repl) for one character c
RECURSIVE ReplaceChar(_, _, _)
ReplaceChar(s, c, repl) ==
    IF s = <<>> THEN <<>>
    ELSE (IF Head(s) = c THEN repl ELSE <<Head(s)>>) \o ReplaceChar(Tail(s), c, repl)

-----------------------------------------------------------------------------
(* name_converter.py *)

\* ''.join(['_'+char.lower() if char.isupper() else char for char in name])
RECURSIVE SnakeChars(_)
SnakeChars(s) ==
    IF s = <<>> THEN <<>>
    ELSE (IF IsUpper(Head(s)) THEN <<USCORE, LowerChar(Head(s))>> ELSE <<Head(s)>>)
         \o SnakeChars(Tail(s))

\* a camel_to_snake that forgets the underscore
camel_to_snake_nosep(s) == Lower(s)

camel_to_snake(s) == SnakeChars(s)

snake_to_camel(s) ==
    LET words == SplitOn(s, USCORE)
    IN  Lower(words[1]) \o JoinTitled(Tail(words))

\* a pascal_to_snake without the [1:]
pascal_to_snake_unsliced(s) == SnakeChars(s)

pascal_to_snake(s) == From(SnakeChars(s), 2)

snake_to_pascal(s) == JoinTitled(SplitOn(s, USCORE))

-----------------------------------------------------------------------------
(* name_checker.py / name_cleaner.py: detect_naming_convention *)

\* every field is a non-empty run of characters of the class
AllFields(fields, class) ==
    \A k \in 1..Len(fields) :
        /\ fields[k] # <<>>
        /\ \A i \in 1..Len(fields[k]) : fields[k][i] \in class

IsLowerOrDigit(c) == IsAsciiLower(c) \/ IsAsciiDigit(c)

\* re.fullmatch(r'[a-z0-9]+(_[a-z0-9]+)+', text)
MatchesSnake(s) ==
    LET f == SplitOn(s, USCORE) IN Len(f) >= 2 /\ AllFields(f, (97..122) \cup (48..57))

\* re.fullmatch(r'[a-z0-9]+([A-Z][a-z0-9]*)+', text)
MatchesCamel(s) ==
    /\ s # <<>>
    /\ IsLowerOrDigit(s[1])
    /\ \A i \in 1..Len(s) : IsLowerOrDigit(s[i]) \/ IsAsciiUpper(s[i])
    /\ \E i \in 1..Len(s) : IsAsciiUpper(s[i])

\* re.fullmatch(r'([A-Z][a-z0-9]+)+', text)
MatchesPascal(s) ==
    /\ s # <<>>
    /\ IsAsciiUpper(s[1])
    /\ \A i \in 1..Len(s) :
          \/ IsLowerOrDigit(s[i])
          \/ IsAsciiUpper(s[i]) /\ i < Len(s) /\ IsLowerOrDigit(s[i+1])

\* re.fullmatch(r'[a-z0-9]+(-[a-z0-9]+)+', text)
MatchesKebab(s) ==
    LET f == SplitOn(s, HYPHEN) IN Len(f) >= 2 /\ AllFields(f, (97..122) \cup (48..57))

\* text.title() == text
MatchesTitle(s) == Title(s) = s

\* re.fullmatch(r'[A-Z0-9]+(_[A-Z0-9]+)+', text) or re.fullmatch(r'[A-Z0-9]+', text)
MatchesUpper(s) == AllFields(SplitOn(s, USCORE), (65..90) \cup (48..57))

\* re.fullmatch(r'[a-z0-9]+', text)
MatchesLower(s) == s # <<>> /\ \A i \in 1..Len(s) : IsLowerOrDigit(s[i])

detect_naming_convention(text) ==
    IF MatchesSnake(text) THEN "snake_case"
    ELSE IF MatchesCamel(text) THEN "camelCase"
    ELSE IF MatchesPascal(text) THEN "PascalCase"
    ELSE IF MatchesKebab(text) THEN "kebab-case"
    ELSE IF MatchesTitle(text) THEN "Title Case"
    ELSE IF MatchesUpper(text) THEN "UPPER_CASE"
    ELSE IF MatchesLower(text) THEN "lowercase"
    ELSE ""

-----------------------------------------------------------------------------
(* name_cleaner.py: character filters *)

\* re.sub(r'\s+', ' ', text): every maximal run of whitespace becomes one space
RECURSIVE CollapseWs(_)
CollapseWs(s) ==
    IF s = <<>> THEN <<>>
    ELSE IF IsSpace(Head(s))
         THEN <<SPACE>> \o CollapseWs(LStrip(s))
         ELSE <<Head(s)>> \o CollapseWs(Tail(s))

remove_multiple_whitespaces(text) == Strip(CollapseWs(text))

IsAscii(c) == c < 128

remove_non_ascii(text) == SelectSeq(text, IsAscii)

\* the end of the leftmost match of open.*?close that starts at s[1], or 0:
\* the first close after s[1], unless a newline comes before it ("." does
\* not match a newline)
EnclosedEnd(s, open, close) ==
    IF s = <<>> \/ Head(s) # open THEN 0
    ELSE LET ends == {j \in 2..Len(s) :
                         /\ s[j] = close
                         /\ \A k \in 2..(j-1) : s[k] # LF}
         IN  IF ends = {} THEN 0
             ELSE CHOOSE j \in ends : \A k \in ends : j <= k

\* re.sub(open.*?close, '', text): the non-overlapping matches, leftmost first
RECURSIVE RemoveEnclosed(_, _, _)
RemoveEnclosed(s, open, close) ==
    IF s = <<>> THEN <<>>
    ELSE LET j == EnclosedEnd(s, open, close)
         IN  IF j > 0 THEN RemoveEnclosed(From(s, j + 1), open, close)
             ELSE <<Head(s)>> \o RemoveEnclosed(Tail(s), open, close)

\* a remove_round_brackets that removes only the first bracketed part
RECURSIVE RemoveFirstEnclosed(_, _, _)
RemoveFirstEnclosed(s, open, close) ==
    IF s = <<>> THEN <<>>
    ELSE LET j == EnclosedEnd(s, open, close)
         IN  IF j > 0 THEN From(s, j + 1)
             ELSE <<Head(s)>> \o RemoveFirstEnclosed(Tail(s), open, close)

remove_round_brackets_first(text) == RemoveFirstEnclosed(text, LPAREN, RPAREN)

remove_round_brackets(text) == RemoveEnclosed(text, LPAREN, RPAREN)
remove_square_brackets(text) == RemoveEnclosed(text, LBRACK, RBRACK)
remove_curly_brackets(text) == RemoveEnclosed(text, LBRACE, RBRACE)
remove_angle_brackets(text) == RemoveEnclosed(text, LT, GT)

-----------------------------------------------------------------------------
(* name_cleaner.py: normalize_notation *)

\* re.sub('([class1])([class2])', r'\1 \2', s) for two character classes: a space
\* between the two characters of every match, matches taken left to right
\* without overlap
RECURSIVE SpaceBetween(_, _, _)
SpaceBetween(s, class1, class2) ==
    IF s = <<>> THEN <<>>
    ELSE IF Len(s) >= 2 /\ s[1] \in class1 /\ s[2] \in class2
         THEN <<s[1], SPACE, s[2]>> \o SpaceBetween(From(s, 3), class1, class2)
         ELSE <<s[1]>> \o SpaceBetween(Tail(s), class1, class2)

\* the length of the longest prefix of s made of lowercase ASCII letters
RECURSIVE LowerRun(_)
LowerRun(s) ==
    IF s # <<>> /\ IsAsciiLower(Head(s)) THEN 1 + LowerRun(Tail(s)) ELSE 0

\* [A-z]: the code points from 'A' to 'z', which include [ \ ] ^ _ `
IsAToz(c) == c \in 65..122

\* [^A-z0-9]
IsSpecial(c) == ~(IsAToz(c) \/ IsAsciiDigit(c))

\* re.sub('([a-z0-9])([A-Z])', r'\1 \2', name)
SpaceCamel(s) == SpaceBetween(s, (97..122) \cup (48..57), 65..90)

\* a normalize_notation without the acronym step
SpaceAcronyms_skipped(s) == s

\* re.sub('([A-Z])([A-Z])([a-z]+)', r'\1 \2\3', name)
RECURSIVE SpaceAcronyms(_)
SpaceAcronyms(s) ==
    IF s = <<>> THEN <<>>
    ELSE IF /\ Len(s) >= 3
            /\ IsAsciiUpper(s[1]) /\ IsAsciiUpper(s[2]) /\ IsAsciiLower(s[3])
         THEN LET n == LowerRun(From(s, 3))
              IN  <<s[1], SPACE>> \o SubSeq(s, 2, 2 + n)
                      \o SpaceAcronyms(From(s, 3 + n))
         ELSE <<s[1]>> \o SpaceAcronyms(Tail(s))

\* re.sub('([0-9])([a-z])', r'\1 \2', name)
SpaceAfterNumbers(s) == SpaceBetween(s, 48..57, 97..122)

\* re.sub('([A-z])([0-9])', r'\1 \2', name)
SpaceBeforeNumbers(s) == SpaceBetween(s, 65..122, 48..57)

\* ' '.join(word for word in name.split('_'))
CleanSnake(s) == Join(SplitOn(s, USCORE), <<SPACE>>)

\* re.sub('[^A-z0-9]', ' ', name).strip()
CleanSpecial(s) ==
    Strip([i \in 1..Len(s) |-> IF IsSpecial(s[i]) THEN SPACE ELSE s[i]])

\* the "clean notation" block: the name as space-separated tokens
Segment(s) ==
    remove_multiple_whitespaces(
        CleanSpecial(
            CleanSnake(
                SpaceBeforeNumbers(
                    SpaceAfterNumbers(
                        SpaceAcronyms(
                            SpaceCamel(s)))))))

Presets == {"snake", "camel", "pascal", "title"}

\* a preset chain that ends in an else branch
ResolveCase_else(notation, case) ==
    IF notation = "snake" THEN "lower"
    ELSE IF notation = "default" THEN case
    ELSE "title"

\* the "prepare notation" block: the case a call ends up with
ResolveCase(notation, case) ==
    IF notation = "snake" THEN "lower"
    ELSE IF notation \in {"pascal", "camel"} THEN "title"
    ELSE IF notation = "title" THEN "title"
    ELSE case

\* a preset chain that forgets the delimiter of pascal and camel
ResolveDelimiter_kept(notation, delimiter) ==
    IF notation = "snake" THEN <<USCORE>>
    ELSE IF notation = "title" THEN <<SPACE>>
    ELSE delimiter

\* the "prepare notation" block: the delimiter a call ends up with
ResolveDelimiter(notation, delimiter) ==
    IF notation = "snake" THEN <<USCORE>>
    ELSE IF notation \in {"pascal", "camel"} THEN <<>>
    ELSE IF notation = "title" THEN <<SPACE>>
    ELSE delimiter

\* ' '.join([word.lower() if word.istitle() else word for word in name.split()])
RECURSIVE LowerTitleWords(_)
LowerTitleWords(words) ==
    IF words = <<>> THEN <<>>
    ELSE <<IF StrIsTitle(Head(words)) THEN Lower(Head(words)) ELSE Head(words)>>
         \o LowerTitleWords(Tail(words))

\* the "prepare case" block for a resolved case
ApplyCase(case, s) ==
    IF case = "default"
    THEN IF StrIsUpper(s) THEN Lower(s)
         ELSE Join(LowerTitleWords(SplitWs(s)), <<SPACE>>)
    ELSE IF case = "lower" THEN Lower(s)
    ELSE IF case = "upper" THEN Upper(s)
    ELSE IF case = "title" THEN Title(s)
    ELSE IF case = "capitalize" THEN Capitalize(s)
    ELSE s

\* the "prepare delimiter" block: re.sub(' ', delimiter, name)
ApplyDelimiter(delimiter, s) ==
    IF delimiter # <<SPACE>> THEN ReplaceChar(s, SPACE, delimiter) ELSE s

\* name[:1].lower() + name[1:]
LowerFirst(s) == IF s = <<>> THEN s ELSE <<LowerChar(s[1])>> \o Tail(s)

normalize_notation(text, notation, case, delimiter, preserve_case) ==
    LET tokens == Segment(text)
        c == ResolveCase(notation, case)
        d == ResolveDelimiter(notation, delimiter)
        cased == IF preserve_case THEN tokens ELSE ApplyCase(c, tokens)
        joined == ApplyDelimiter(d, cased)
    IN  IF notation = "camel" THEN LowerFirst(joined) ELSE joined

-----------------------------------------------------------------------------
(* name_checker.py: the predicates and check_name *)

\* name != name.strip()
contains_outer_whitespace(s) == s # Strip(s)

\* re.search(r'\s{2,}', name)
contains_multiple_whitespaces(s) ==
    \E i \in 1..(Len(s) - 1) : IsSpace(s[i]) /\ IsSpace(s[i+1])

\* \b between s[p] and s[p+1], for p in 0..Len(s); outside the string counts
\* as a non-word character
WordBoundary(s, p) ==
    LET before == p >= 1 /\ IsWordChar(s[p])
        after == p < Len(s) /\ IsWordChar(s[p+1])
    IN  before # after

\* s[i+1..j] is [A-Z]{2,}
UpperRun(s, i, j) ==
    j - i >= 2 /\ \A k \in (i+1)..j : IsAsciiUpper(s[k])

\* s[i+1..j] is \([A-Z]{2,}\)
ParenUpperRun(s, i, j) ==
    /\ j - i >= 4
    /\ s[i+1] = LPAREN /\ s[j] = RPAREN
    /\ UpperRun(s, i + 1, j - 1)

\* s[i+1..j] is [A-Z](?:\.[A-Z])+
DottedInitials(s, i, j) ==
    /\ j - i >= 3 /\ (j - i) % 2 = 1
    /\ \A k \in (i+1)..j :
          IF (k - i) % 2 = 1 THEN IsAsciiUpper(s[k]) ELSE s[k] = DOT

\* re.search(r'\b(?:[A-Z]{2,}|\([A-Z]{2,}\)|[A-Z](?:\.[A-Z])+)\b', name)
contains_acronym(s) ==
    \E i \in 0..Len(s), j \in 0..Len(s) :
        /\ i < j
        /\ WordBoundary(s, i) /\ WordBoundary(s, j)
        /\ UpperRun(s, i, j) \/ ParenUpperRun(s, i, j) \/ DottedInitials(s, i, j)

contains_non_ascii(s) == \E i \in 1..Len(s) : s[i] > 127
contains_non_alphabetic(s) == \E i \in 1..Len(s) : ~IsAlpha(s[i])
contains_non_alphanumeric(s) == \E i \in 1..Len(s) : ~IsAlnum(s[i])
contains_punctuation(s) == \E i \in 1..Len(s) : IsPunct(s[i])
contains_unicode_dashes(s) ==
    \E i \in 1..Len(s) : s[i] \in {ENDASH, EMDASH, MINUSSIGN}
contains_ampersand(s) == \E i \in 1..Len(s) : s[i] = AMP
contains_number(s) == \E i \in 1..Len(s) : IsDigit(s[i])

\* re.sub("[" + chars + "]", '', s), for chars that stand for themselves in
\* a character class; also re.sub(c, '', s) for a one-character pattern c
RemoveChars(s, chars) ==
    LET class == {chars[k] : k \in 1..Len(chars)}
        Kept(c) == c \notin class
    IN  SelectSeq(s, Kept)

\* re.sub(r'[\d!"#$%&\'()*+,\-./:;<=>?@\[\]^_`{|}~]', '', s)
RemoveDigitsAndPunctuation(s) ==
    LET Kept(c) == ~(IsDigit(c) \/ IsPunct(c)) IN SelectSeq(s, Kept)

\* result.append(text) when the predicate holds
LabelIf(holds, text) == IF holds THEN <<text>> ELSE <<>>

\* the labels of check_name in the order it appends them; the returned string
\* is ', '.join of this sequence, '' when it is empty
check_name(text, separator, ignore) ==
    LET stripped == IF ignore # <<>> THEN RemoveChars(text, ignore) ELSE text
        cleaned == RemoveDigitsAndPunctuation(RemoveChars(stripped, separator))
    IN  LabelIf(contains_outer_whitespace(text), "outer whitespace")
        \o LabelIf(contains_multiple_whitespaces(text), "multiple whitespaces")
        \o LabelIf(contains_number(stripped), "number")
        \o LabelIf(contains_acronym(stripped), "acronym")
        \o LabelIf(contains_non_ascii(stripped), "non-ASCII")
        \o LabelIf(contains_unicode_dashes(stripped), "unicode dashes")
        \o LabelIf(contains_ampersand(stripped), "ampersand")
        \o LabelIf(contains_punctuation(stripped), "punctuation")
        \o LabelIf(contains_non_alphabetic(cleaned), "non-alphabetic")
        \o LabelIf(contains_non_alphanumeric(cleaned), "non-alphanumeric")

-----------------------------------------------------------------------------
(* The caller *)

\* the defaults of the keyword arguments (check_name, normalize_notation)
DefaultCfg ==
    [notation |-> "default", case |-> "default", delimiter |-> <<SPACE>>,
     preserve_case |-> FALSE, separator |-> <<SPACE>>, ignore |-> <<>>]

\* the state before any call, for a caller starting from one of the names
Start(names) ==
    /\ name \in names
    /\ op1 = "none" /\ op2 = "none"
    /\ mid = name /\ out = name
    /\ cfg = DefaultCfg
    /\ report = <<>>
    /\ label = "none"

\* a string-to-string operation f applied to the current text, giving r
\* (the caller makes at most two calls in a row: the actions require
\* op2 = "none")
Apply(f, r) ==
    /\ IF op1 = "none"
       THEN op1' = f /\ mid' = r /\ op2' = op2
       ELSE op2' = f /\ mid' = mid /\ op1' = op1
    /\ out' = r
    /\ UNCHANGED <<name, cfg, report, label>>

CamelToSnake ==
    /\ op2 = "none"
    /\ Apply("camel_to_snake", camel_to_snake(out))
SnakeToCamel ==
    /\ op2 = "none"
    /\ Apply("snake_to_camel", snake_to_camel(out))
PascalToSnake ==
    /\ op2 = "none"
    /\ Apply("pascal_to_snake", pascal_to_snake(out))
SnakeToPascal ==
    /\ op2 = "none"
    /\ Apply("snake_to_pascal", snake_to_pascal(out))

RemoveMultipleWhitespaces ==
    /\ op2 = "none"
    /\ Apply("remove_multiple_whitespaces", remove_multiple_whitespaces(out))
RemoveNonAscii ==
    /\ op2 = "none"
    /\ Apply("remove_non_ascii", remove_non_ascii(out))
RemoveRoundBrackets ==
    /\ op2 = "none"
    /\ Apply("remove_round_brackets", remove_round_brackets(out))
RemoveSquareBrackets ==
    /\ op2 = "none"
    /\ Apply("remove_square_brackets", remove_square_brackets(out))
RemoveCurlyBrackets ==
    /\ op2 = "none"
    /\ Apply("remove_curly_brackets", remove_curly_brackets(out))
RemoveAngleBrackets ==
    /\ op2 = "none"
    /\ Apply("remove_angle_brackets", remove_angle_brackets(out))

\* the values the caller passes: the documented ones and one that is not
Notations == Presets \cup {"default", "kebab"}
Cases == {"default", "lower", "upper", "title", "capitalize", "sentence"}
Delimiters == {<<SPACE>>, <<USCORE>>, <<HYPHEN>>, <<>>}

NormalizeNotation ==
    /\ op1 = "none"
    /\ \E n \in Notations, c \in Cases, d \in Delimiters, p \in BOOLEAN :
          /\ cfg' = [cfg EXCEPT !.notation = n, !.case = c,
                                !.delimiter = d, !.preserve_case = p]
          /\ out' = normalize_notation(name, n, c, d, p)
    /\ op1' = "normalize_notation"
    /\ mid' = out'
    /\ UNCHANGED <<name, op2, report, label>>

\* the characters names given to check_name are made of
CheckAlphabet == {97, 65, 49, SPACE, AMP, DOT, ENDASH, 233}

\* the ignore arguments: none, one or two of those characters
IgnoreArgs ==
    {<<>>} \cup {<<c>> : c \in CheckAlphabet}
           \cup {<<c, d>> : c \in CheckAlphabet, d \in CheckAlphabet}
Separators == {<<SPACE>>, <<HYPHEN>>, <<USCORE>>}

CheckName ==
    /\ op1 = "none"
    /\ \E sep \in Separators, ign \in IgnoreArgs :
          /\ cfg' = [cfg EXCEPT !.separator = sep, !.ignore = ign]
          /\ report' = check_name(name, sep, ign)
    /\ op1' = "check_name"
    /\ UNCHANGED <<name, mid, op2, out, label>>

DetectNamingConvention ==
    /\ op1 = "none"
    /\ op1' = "detect_naming_convention"
    /\ label' = detect_naming_convention(name)
    /\ UNCHANGED <<name, mid, op2, out, cfg, report>>

-----------------------------------------------------------------------------
(* Converters: names over letters, a digit and the underscore *)

ConvAlphabet == {97, 98, 65, 66, 49, USCORE}
ConvNames == StringsOver(ConvAlphabet, MaxConvLen)

InitConv == Start(ConvNames)
NextConv == CamelToSnake \/ SnakeToCamel \/ PascalToSnake \/ SnakeToPascal
SpecConv == InitConv /\ [][NextConv]_vars

(* Detection: names over letters, a digit, and the three separators *)

DetectAlphabet == {97, 98, 65, 66, 49, USCORE, HYPHEN, SPACE}
DetectNames == StringsOver(DetectAlphabet, MaxDetectLen)

InitDetect == Start(DetectNames)
NextDetect == DetectNamingConvention
SpecDetect == InitDetect /\ [][NextDetect]_vars

(* Filters: texts over one pair of brackets, a letter, a space, a newline    *)
(* and one non-ASCII letter                                                  *)

BracketPairs == {<<LPAREN, RPAREN>>, <<LBRACK, RBRACK>>, <<LBRACE, RBRACE>>, <<LT, GT>>}
FilterNames ==
    UNION {StringsOver({b[1], b[2], 97, SPACE, LF, 233}, MaxFilterLen) : b \in BracketPairs}
Filters ==
    {"remove_multiple_whitespaces", "remove_non_ascii", "remove_round_brackets",
     "remove_square_brackets", "remove_curly_brackets", "remove_angle_brackets"}

InitFilter == Start(FilterNames)
NextFilter ==
    \/ RemoveMultipleWhitespaces
    \/ RemoveNonAscii
    \/ RemoveRoundBrackets
    \/ RemoveSquareBrackets
    \/ RemoveCurlyBrackets
    \/ RemoveAngleBrackets
SpecFilter == InitFilter /\ [][NextFilter]_vars

(* Checking: names over letters, a digit, a space, an ampersand, a dot, an   *)
(* en dash and a non-ASCII letter                                            *)

CheckNames == StringsOver(CheckAlphabet, MaxCheckLen)

InitCheck == Start(CheckNames)
NextCheck == CheckName
SpecCheck == InitCheck /\ [][NextCheck]_vars

(* Normalization: short names over letters, a digit, separators and a       *)
(* bracket; punctuation-only names; acronym-and-words names; and names of    *)
(* lowercase words                                                           *)

\* [A-Z]{2,}([A-Z][a-z]+)+ : an acronym, then capitalized words
IsAcronymWords(s) ==
    /\ Len(s) >= 4
    /\ \A i \in 1..Len(s) : IsAsciiUpper(s[i]) \/ IsAsciiLower(s[i])
    /\ IsAsciiUpper(s[1]) /\ IsAsciiUpper(s[2]) /\ IsAsciiUpper(s[3])
    /\ IsAsciiLower(s[Len(s)])
    /\ \A i \in 2..(Len(s) - 1) :
          (IsAsciiLower(s[i-1]) /\ IsAsciiUpper(s[i])) => IsAsciiLower(s[i+1])

\* lowercase ASCII-letter words separated by single spaces
IsLowerWords(s) ==
    /\ s # <<>>
    /\ \A i \in 1..Len(s) : IsAsciiLower(s[i]) \/ s[i] = SPACE
    /\ s[1] # SPACE /\ s[Len(s)] # SPACE
    /\ \A i \in 1..(Len(s) - 1) : ~(s[i] = SPACE /\ s[i+1] = SPACE)

NormAlphabet == {97, 65, 66, 49, SPACE, USCORE, HYPHEN}
PunctAlphabet == {33, HYPHEN, DOT, LBRACK, 92, RBRACK, 94, 96}
AcronymAlphabet == {72, 84, 115, 101}
WordsAlphabet == {97, 98, SPACE}
NormNames ==
    StringsOver(NormAlphabet, MaxNormLen)
        \cup StringsOver(PunctAlphabet, MaxPunctLen)
        \cup {s \in StringsOver(AcronymAlphabet, MaxAcronymLen) : IsAcronymWords(s)}
        \cup StringsOver(WordsAlphabet, MaxWordsLen)

InitNorm == Start(NormNames)
NextNorm == NormalizeNotation
SpecNorm == InitNorm /\ [][NextNorm]_vars

-----------------------------------------------------------------------------
(* Properties of the converters (SpecConv) *)

\* C1 (as stated): a converter returns unchanged an input that is already in
\* its target convention: camel_to_snake and pascal_to_snake on a snake_case
\* string, snake_to_camel on a camelCase string, snake_to_pascal on a
\* PascalCase one.
C1_TargetConventionUnchanged ==
    /\ op1 = "camel_to_snake" /\ MatchesSnake(name) => mid = name
    /\ op1 = "pascal_to_snake" /\ MatchesSnake(name) => mid = name
    /\ op1 = "snake_to_camel" /\ MatchesCamel(name) => mid = name
    /\ op1 = "snake_to_pascal" /\ MatchesPascal(name) => mid = name

\* C1 (amended): camel_to_snake returns a snake_case string unchanged; the
\* other three do not keep a string of their target convention: on a
\* snake_case string pascal_to_snake returns it without its first character,
\* on a camelCase string snake_to_camel returns it lowercased, and on a
\* PascalCase string snake_to_pascal returns its title() form.
C1_OnlyCamelToSnakeKeepsTarget ==
    /\ op1 = "camel_to_snake" /\ MatchesSnake(name) => mid = name
    /\ op1 = "pascal_to_snake" /\ MatchesSnake(name) => mid = Tail(name)
    /\ op1 = "snake_to_camel" /\ MatchesCamel(name) => mid = Lower(name)
    /\ op1 = "snake_to_pascal" /\ MatchesPascal(name) => mid = Title(name)

\* pascal_to_snake was applied to a snake_case name and returned it without
\* its first character
C1_Witness ==
    /\ op1 = "pascal_to_snake" /\ MatchesSnake(name)
    /\ Len(name) = 3
    /\ mid = <<USCORE, name[3]>>

\* ASCII letters only, starting with a lowercase letter
IsSimpleCamel(s) ==
    /\ s # <<>>
    /\ IsAsciiLower(s[1])
    /\ \A i \in 1..Len(s) : IsAsciiLower(s[i]) \/ IsAsciiUpper(s[i])

\* C8: camel_to_snake followed by snake_to_camel gives back every name made
\* of ASCII letters only that starts with a lowercase letter.
C8_CamelSnakeRoundTrip ==
    (op1 = "camel_to_snake" /\ op2 = "snake_to_camel" /\ IsSimpleCamel(name))
        => out = name

\* the round trip was made on a name with two humps, one of them an acronym
C8_Witness ==
    /\ op1 = "camel_to_snake" /\ op2 = "snake_to_camel"
    /\ IsSimpleCamel(name)
    /\ Len(name) >= 4
    /\ IsAsciiUpper(name[2]) /\ IsAsciiUpper(name[3]) /\ IsAsciiLower(name[4])
    /\ Len(mid) > Len(name)
    /\ out = name

-----------------------------------------------------------------------------
(* Properties of detect_naming_convention (SpecDetect) *)

\* C2: a string that matches the defining pattern of a convention label is
\* given that label; a single uppercase letter is UPPER_CASE and a single
\* lowercase letter is lowercase.
C2_PatternGivesLabel ==
    op1 = "detect_naming_convention" =>
        /\ MatchesSnake(name) => label = "snake_case"
        /\ MatchesCamel(name) => label = "camelCase"
        /\ MatchesPascal(name) => label = "PascalCase"
        /\ MatchesKebab(name) => label = "kebab-case"
        /\ MatchesTitle(name) => label = "Title Case"
        /\ MatchesUpper(name) => label = "UPPER_CASE"
        /\ MatchesLower(name) => label = "lowercase"
        /\ (Len(name) = 1 /\ IsAsciiUpper(name[1])) => label = "UPPER_CASE"
        /\ (Len(name) = 1 /\ IsAsciiLower(name[1])) => label = "lowercase"

\* C3: the empty string matches no convention: detect_naming_convention
\* returns the fallback label '' for it.
C3_EmptyIsFallback ==
    (op1 = "detect_naming_convention" /\ name = <<>>) => label = ""

-----------------------------------------------------------------------------
(* Properties of the character filters (SpecFilter) *)

\* C9: each of remove_non_ascii, remove_multiple_whitespaces and the four
\* remove_*_brackets filters is idempotent: applying it to its own result
\* changes nothing.
C9_FiltersIdempotent ==
    (op1 \in Filters /\ op2 = op1) => out = mid

\* remove_round_brackets was applied twice to a text whose first bracket is
\* cut off from the closing ones by a newline: the first call removed the
\* later pair and left an opening bracket with a closing one after it on the
\* next line
C9_Witness ==
    /\ op1 = "remove_round_brackets" /\ op2 = op1
    /\ Len(name) = 4
    /\ name[1] = LPAREN /\ name[2] = LF /\ name[3] = LPAREN /\ name[4] = RPAREN
    /\ mid = <<LPAREN, LF>>
    /\ out = mid

-----------------------------------------------------------------------------
(* Properties of check_name (SpecCheck) *)

Reported(labels, text) == \E k \in 1..Len(labels) : labels[k] = text

\* the labels of the predicates other than non-alphabetic and non-alphanumeric
OtherLabels ==
    {"outer whitespace", "multiple whitespaces", "number", "acronym",
     "non-ASCII", "unicode dashes", "ampersand", "punctuation"}

\* C4: the ignore characters are removed only for the non-alphabetic and
\* non-alphanumeric checks: for every other label, check_name reports it with
\* an ignore set exactly when it reports it with ignore = ''.
C4_IgnoreOnlyForAlphaChecks ==
    op1 = "check_name" =>
        \A l \in OtherLabels :
            Reported(report, l)
                <=> Reported(check_name(name, cfg.separator, <<>>), l)

-----------------------------------------------------------------------------
(* Properties of normalize_notation (SpecNorm) *)

KnownNotations == Presets \cup {"default"}
KnownCases == {"default", "lower", "upper", "title", "capitalize"}

\* C5 (as stated): an unrecognized notation gives the result of
\* notation='default' and an unrecognized case gives the result of
\* case='default'.
C5_UnknownIsDefault ==
    op1 = "normalize_notation" =>
        /\ cfg.notation \notin KnownNotations =>
              out = normalize_notation(name, "default", cfg.case,
                                       cfg.delimiter, cfg.preserve_case)
        /\ cfg.case \notin KnownCases =>
              out = normalize_notation(name, cfg.notation, "default",
                                       cfg.delimiter, cfg.preserve_case)

\* C5 (amended): an unrecognized notation gives the result of
\* notation='default'; an unrecognized case gives the result of
\* case='default' when the notation is a preset or preserve_case is set, and
\* otherwise changes no letter case: the result is the segmented name with
\* its spaces replaced by the delimiter, which is what preserve_case=True
\* gives.
C5_UnknownNotationIsDefaultUnknownCaseKeepsCase ==
    op1 = "normalize_notation" =>
        /\ cfg.notation \notin KnownNotations =>
              out = normalize_notation(name, "default", cfg.case,
                                       cfg.delimiter, cfg.preserve_case)
        /\ (cfg.case \notin KnownCases
                /\ (cfg.notation \in Presets \/ cfg.preserve_case)) =>
              out = normalize_notation(name, cfg.notation, "default",
                                       cfg.delimiter, cfg.preserve_case)
        /\ (cfg.case \notin KnownCases
                /\ cfg.notation \notin Presets /\ ~cfg.preserve_case) =>
              /\ out = ApplyDelimiter(cfg.delimiter, Segment(name))
              /\ out = normalize_notation(name, cfg.notation, cfg.case,
                                          cfg.delimiter, TRUE)

\* a call with an unrecognized notation and an unrecognized case, on a name
\* whose uppercase letter case='default' would have lowered
C5_Witness ==
    /\ op1 = "normalize_notation"
    /\ cfg.notation \notin KnownNotations /\ cfg.case \notin KnownCases
    /\ ~cfg.preserve_case
    /\ cfg.delimiter = <<HYPHEN>>
    /\ \E i \in 1..Len(out) : IsAsciiUpper(out[i])
    /\ \E i \in 1..Len(out) : out[i] = HYPHEN
    /\ out # normalize_notation(name, cfg.notation, "default", cfg.delimiter, FALSE)

\* the snake_case form of an acronym-and-words name: every letter lowered, an
\* underscore before each uppercase letter that starts a word
RECURSIVE SnakeFrom(_, _)
SnakeFrom(s, i) ==
    IF i > Len(s) THEN <<>>
    ELSE (IF i > 1 /\ IsAsciiUpper(s[i]) /\ i < Len(s) /\ IsAsciiLower(s[i+1])
          THEN <<USCORE>> ELSE <<>>)
         \o <<LowerChar(s[i])>> \o SnakeFrom(s, i + 1)

\* C6: with notation='snake', an acronym of two or more uppercase letters
\* followed by capitalized words becomes the lowercased acronym and the
\* lowercased words joined by single underscores.
C6_SnakeHonoursAcronymBoundary ==
    (op1 = "normalize_notation" /\ cfg.notation = "snake"
        /\ ~cfg.preserve_case /\ IsAcronymWords(name))
        => out = SnakeFrom(name, 1)

\* an acronym followed by two capitalized words was normalized to snake
C6_Witness ==
    /\ op1 = "normalize_notation" /\ cfg.notation = "snake"
    /\ ~cfg.preserve_case /\ IsAcronymWords(name)
    /\ Len(name) = 6
    /\ IsAsciiUpper(name[3]) /\ IsAsciiLower(name[4])
    /\ IsAsciiUpper(name[5]) /\ IsAsciiLower(name[6])
    /\ Len(out) = 8 /\ out[3] = USCORE /\ out[6] = USCORE

\* the words of a lowercase-words name concatenated, each with its first
\* letter uppercased
PascalOfWords(s) ==
    LET marked == [i \in 1..Len(s) |->
                      IF s[i] # SPACE /\ (i = 1 \/ s[i-1] = SPACE)
                      THEN s[i] - 32 ELSE s[i]]
        NotSpace(c) == c # SPACE
    IN  SelectSeq(marked, NotSpace)

\* C7: for a name of lowercase ASCII words separated by single spaces,
\* notation='pascal' returns the words concatenated with their first letters
\* uppercased, and notation='camel' that string with its first character
\* lowercased, whatever case and delimiter were passed.
C7_PascalAndCamelOfWords ==
    (op1 = "normalize_notation" /\ ~cfg.preserve_case /\ IsLowerWords(name)) =>
        /\ cfg.notation = "pascal" => out = PascalOfWords(name)
        /\ cfg.notation = "camel" =>
              out = <<name[1]>> \o Tail(PascalOfWords(name))

\* three words were normalized to camel with a case and a delimiter that the
\* preset overrides
C7_Witness ==
    /\ op1 = "normalize_notation" /\ ~cfg.preserve_case /\ IsLowerWords(name)
    /\ cfg.notation = "camel" /\ cfg.case = "upper" /\ cfg.delimiter = <<USCORE>>
    /\ Len(name) = 5 /\ name[2] = SPACE /\ name[4] = SPACE
    /\ Len(out) = 3
    /\ IsAsciiLower(out[1]) /\ IsAsciiUpper(out[2]) /\ IsAsciiUpper(out[3])

\* C10: every character that is not an ASCII letter or digit becomes a token
\* boundary, so a name without letters and digits gives the empty string for
\* every notation, case and delimiter.
C10_PunctuationOnlyGivesEmpty ==
    (op1 = "normalize_notation"
        /\ \A i \in 1..Len(name) :
              ~(IsAsciiUpper(name[i]) \/ IsAsciiLower(name[i]) \/ IsAsciiDigit(name[i])))
        => out = <<>>

====
